---------------------------- MODULE Spec2Model ----------------------------
(***************************************************************************)
(* SnapSort backend (src/backend_server/app.py): the /analyze handler, its *)
(* per-image coroutine _analyze_file, the encoder _encode_image and the    *)
(* extraction client _call_model, run on one asyncio event loop.           *)
(*                                                                         *)
(* Python values are encoded as follows.                                   *)
(*   Optional[T]   None is <<>>, a present value v is <<v>>                *)
(*   str filename  [stem |-> .., ext |-> ..]  (what splitext would give)   *)
(*   bytes         a sequence of numbers 0..255                            *)
(*   JSON value    [t |-> "null"], [t |-> "str", v |-> s],                 *)
(*                 [t |-> "list", v |-> <<..>>], [t |-> "obj", v |-> f]    *)
(*                 with f a function from key strings to JSON values       *)
(*   a call that may raise returns [ok |-> TRUE, value |-> v] or           *)
(*                 [ok |-> FALSE, exc |-> str(exception)]                  *)
(***************************************************************************)
EXTENDS Integers, Sequences, FiniteSets, TLC

\* ------------------------------------------------------------ bounds
\* `len(files) > 10`
MaxFiles == 10
\* how many files beyond the limit a rejected batch may hold
MaxExcess == 1
\* batches up to this length mix every kind of file; longer ones repeat one kind
MaxVaried == 2
\* the largest host modelled, in CPUs
MaxCpus == 6
\* the most items an extraction response lists
MaxItems == 2

\* ------------------------------------------------------------ state
VARIABLES
    api_key,       \* client.api_key
    pydantic,      \* the major version of the installed pydantic: 1 or 2
    cpu_count,     \* os.cpu_count() of the host
    pc,            \* analyze: "idle", "gather" (awaiting gather), "done"
    files,         \* the request's UploadFile objects
    service,       \* what the external service answers to the call of file i
    task_pc,       \* _analyze_file(files[i]): "pending", "waiting" (in to_thread), "finished"
    task_result,   \* how task i ended
    reads,         \* how often files[i].file was read
    calls,         \* the data URLs _call_model was called with for file i
    queue,         \* the executor's work queue: calls no worker has taken yet
    running,       \* the files whose call a worker thread is executing
    response,      \* what the client of /analyze got
    out_of_order   \* some call returned while the call of an earlier file was pending

vars == <<api_key, pydantic, cpu_count, pc, files, service, task_pc, task_result,
          reads, calls, queue, running, response, out_of_order>>

\* ------------------------------------------------------------ Python values
None == <<>>
Some(v) == <<v>>
IsNone(o) == o = <<>>
Get(o) == o[1]

Ok(v) == [ok |-> TRUE, value |-> v]
Raise(msg) == [ok |-> FALSE, exc |-> msg]

JNull == [t |-> "null"]
JStr(s) == [t |-> "str", v |-> s]
JList(s) == [t |-> "list", v |-> s]
JObj(f) == [t |-> "obj", v |-> f]

\* dict.get(key): None for a missing key
DictGet_none(d, key, default) == IF key \in DOMAIN d.v THEN d.v[key] ELSE JNull
\* dict.get(key, default)
DictGet(d, key, default) == IF key \in DOMAIN d.v THEN d.v[key] ELSE default

\* ------------------------------------------------------------ 4.1 encoder
\* the '=' sign of the base64 alphabet, after its 64 digits
B64Pad == 64

\* one group of at most three bytes as four base64 digits
B64Group(g) ==
    LET b1 == g[1]
        b2 == IF Len(g) >= 2 THEN g[2] ELSE 0
        b3 == IF Len(g) >= 3 THEN g[3] ELSE 0
    IN  << b1 \div 4,
           (b1 % 4) * 16 + (b2 \div 16),
           IF Len(g) >= 2 THEN (b2 % 16) * 4 + (b3 \div 64) ELSE B64Pad,
           IF Len(g) >= 3 THEN b3 % 64 ELSE B64Pad >>

RECURSIVE b64encode(_)
b64encode(data) ==
    IF Len(data) = 0 THEN <<>>
    ELSE IF Len(data) <= 3 THEN B64Group(data)
    ELSE B64Group(SubSeq(data, 1, 3)) \o b64encode(SubSeq(data, 4, Len(data)))

\* the extensions of mimetypes' table that the model's filenames use
TypesMap == [e \in {".png", ".jpg", ".gif"} |->
               CASE e = ".png" -> "image/png"
                 [] e = ".jpg" -> "image/jpeg"
                 [] e = ".gif" -> "image/gif"]

EmptyName == [stem |-> "", ext |-> ""]

\* mimetypes.guess_type(name)[0]
guess_type(name) ==
    IF name.ext \in DOMAIN TypesMap THEN Some(TypesMap[name.ext]) ELSE None

\* the encoder without its check of an empty buffer
encode_image_unchecked(filename, data) ==
    LET hint == IF IsNone(filename) THEN EmptyName ELSE Get(filename)
        guess == guess_type(hint)
        mime_type == IF IsNone(guess) THEN "image/png" ELSE Get(guess)
    IN  Ok([mime |-> mime_type, base64 |-> b64encode(data)])
\* _encode_image once upload.file.read() has returned `data`
encode_image(filename, data) ==
    IF Len(data) = 0 THEN Raise("empty file")
    ELSE LET hint == IF IsNone(filename) THEN EmptyName ELSE Get(filename)
             guess == guess_type(hint)
             mime_type == IF IsNone(guess) THEN "image/png" ELSE Get(guess)
         IN  Ok([mime |-> mime_type, base64 |-> b64encode(data)])


\* ------------------------------------------------------------ 4.2 extraction client
\* What the external service does with one request: it fails (network or
\* service error, raised by client.responses.create) or returns output_text.
ServiceError(msg) == [failed |-> TRUE, msg |-> msg]
\* output_text: `json` tells whether the text is a JSON document, `value` is
\* the document it denotes
ServiceText(isJson, value) == [failed |-> FALSE, json |-> isJson, value |-> value]

\* json.loads(response.output_text)
json_loads(text) ==
    IF text.json THEN Ok(text.value)
    ELSE Raise("Expecting value: line 1 column 1 (char 0)")

\* _call_model(image_data_url) when the service behaves as `reply`
call_model(image_data_url, reply) ==
    IF reply.failed THEN Raise(reply.msg) ELSE json_loads(reply)

\* ------------------------------------------------------------ pydantic models
\* pydantic 2 makes a field annotated Optional[str] without a default a
\* required one; pydantic 1 gives it the default None. The code runs on
\* either.
OptionalFieldsRequired == pydantic = 2

\* a field annotated Optional[str]
OptionalStr(item, key) ==
    IF key \notin DOMAIN item.v
    THEN IF OptionalFieldsRequired
            THEN Raise("1 validation error for ProductOut: field required")
            ELSE Ok(None)
    ELSE LET x == item.v[key]
         IN  CASE x.t = "null" -> Ok(None)
               [] x.t = "str" -> Ok(Some(x.v))
               [] OTHER -> Raise("1 validation error for ProductOut: str type expected")

\* a field annotated str
RequiredStr(item, key) ==
    IF key \notin DOMAIN item.v
    THEN Raise("1 validation error for ProductOut: field required")
    ELSE LET x == item.v[key]
         IN  IF x.t = "str" THEN Ok(x.v)
             ELSE Raise("1 validation error for ProductOut: str type expected")

\* ProductOut(**item)
ProductOut(item) ==
    IF item.t # "obj" THEN Raise("argument after ** must be a mapping")
    ELSE LET brand == OptionalStr(item, "brand")
             product_name == RequiredStr(item, "product_name")
             price == OptionalStr(item, "price")
         IN  IF ~brand.ok THEN brand
             ELSE IF ~product_name.ok THEN product_name
             ELSE IF ~price.ok THEN price
             ELSE Ok([brand |-> brand.value,
                      product_name |-> product_name.value,
                      price |-> price.value])

\* the products collected last first
RECURSIVE ProductList_reversed(_)
ProductList_reversed(items) ==
    IF Len(items) = 0 THEN Ok(<<>>)
    ELSE LET head == ProductOut(items[1])
         IN  IF ~head.ok THEN head
             ELSE LET tail == ProductList_reversed(SubSeq(items, 2, Len(items)))
                  IN  IF ~tail.ok THEN tail ELSE Ok(tail.value \o <<head.value>>)
\* [ProductOut(**item) for item in items]: the first item that fails raises
RECURSIVE ProductList(_)
ProductList(items) ==
    IF Len(items) = 0 THEN Ok(<<>>)
    ELSE LET head == ProductOut(items[1])
         IN  IF ~head.ok THEN head
             ELSE LET tail == ProductList(SubSeq(items, 2, Len(items)))
                  IN  IF ~tail.ok THEN tail ELSE Ok(<<head.value>> \o tail.value)

\* ImageResult(filename=.., type=.., products=.., error=..): filename and type
\* are annotated str, so None and non-strings fail validation
ImageResult(filename, type, products, error) ==
    IF IsNone(filename)
    THEN Raise("1 validation error for ImageResult: filename")
    ELSE IF type.t # "str"
    THEN Raise("1 validation error for ImageResult: type")
    ELSE Ok([filename |-> Get(filename), type |-> type.v,
             products |-> products, error |-> error])

\* ------------------------------------------------------------ 4.3 per-image orchestrator
\* `for item in x`: the elements a comprehension walks through. A str yields
\* its characters and a dict its keys, all of them strings.
Iterate(x) ==
    CASE x.t = "list" -> Ok(x.v)
      [] x.t = "null" -> Raise("'NoneType' object is not iterable")
      [] x.t = "str" -> Ok(IF x.v = "" THEN <<>> ELSE <<JStr(x.v)>>)
      [] x.t = "obj" -> Ok(IF DOMAIN x.v = {} THEN <<>>
                           ELSE <<JStr(CHOOSE k \in DOMAIN x.v : TRUE)>>)

\* ImageResult(filename=upload.filename, type=raw.get("type", "unknown"),
\*             products=[ProductOut(**item) for item in raw.get("extracted", [])])
SuccessResult(filename, raw) ==
    IF raw.t # "obj" THEN Raise("object has no attribute 'get'")
    ELSE LET type == DictGet(raw, "type", JStr("unknown"))
             items == Iterate(DictGet(raw, "extracted", JList(<<>>)))
         IN  IF ~items.ok THEN items
             ELSE LET products == ProductList(items.value)
                  IN  IF ~products.ok THEN products
                      ELSE ImageResult(filename, type, products.value, None)

\* the handler keeps the default type instead of "error"
ExceptResult_unknown(filename, exc) ==
    ImageResult(filename, JStr("unknown"), <<>>, Some(exc))
\* except Exception as exc: return ImageResult(.., type="error", products=[], error=str(exc))
ExceptResult(filename, exc) ==
    ImageResult(filename, JStr("error"), <<>>, Some(exc))

\* try: <attempt> except Exception: <handler>; an exception of the handler
\* itself leaves the coroutine
TryExcept(filename, attempt) ==
    IF attempt.ok THEN attempt ELSE ExceptResult(filename, attempt.exc)

\* the coroutine from `await asyncio.to_thread(..)` on, the call having
\* behaved as `reply`
AfterCall(filename, image_data_url, reply) ==
    LET raw == call_model(image_data_url, reply)
    IN  TryExcept(filename,
                  IF ~raw.ok THEN raw ELSE SuccessResult(filename, raw.value))

\* how a task ended: it returned a value or raised
NotFinished == [kind |-> "none"]
Outcome(r) ==
    IF r.ok THEN [kind |-> "returned", value |-> r.value]
    ELSE [kind |-> "raised", exc |-> r.exc]

\* ------------------------------------------------------------ 4.4 batch coordinator
HTTPException(status_code, detail) == [status |-> status_code, detail |-> detail]
NoResponse == [status |-> 0]

\* `not files`
NoFiles(fs) == Len(fs) = 0
\* the limit checked one too high
TooMany_high(fs) == Len(fs) > MaxFiles + 1
\* the limit checked one too low
TooMany_low(fs) == Len(fs) >= MaxFiles
\* `len(files) > 10`
TooMany(fs) == Len(fs) > MaxFiles
\* only a missing key is refused, an empty one passes
NoKey_is_none(key) == IsNone(key)
\* `not client.api_key`
NoKey(key) == IsNone(key) \/ Get(key) = ""

\* the credential checked before the count of files
Precheck_key_first(fs, key) ==
    IF NoKey(key) THEN Some(HTTPException(500, "OPENAI_API_KEY not configured"))
    ELSE IF NoFiles(fs) THEN Some(HTTPException(400, "At least one image is required"))
    ELSE IF TooMany(fs) THEN Some(HTTPException(400, "Maximum of 10 images allowed"))
    ELSE None
\* the three checks of analyze, in their order; None when all pass
Precheck(fs, key) ==
    IF NoFiles(fs) THEN Some(HTTPException(400, "At least one image is required"))
    ELSE IF TooMany(fs) THEN Some(HTTPException(400, "Maximum of 10 images allowed"))
    ELSE IF NoKey(key) THEN Some(HTTPException(500, "OPENAI_API_KEY not configured"))
    ELSE None

\* AnalyzeResponse(results=results), results being gather's list: the
\* children's results in the order the children were passed
AnalyzeResponse(results) == [status |-> 200, results |-> results]
\* the results read off from the last child to the first
GatherResults_reversed(outcomes) ==
    [i \in 1..Len(outcomes) |-> outcomes[Len(outcomes) + 1 - i].value]
GatherResults(outcomes) == [i \in 1..Len(outcomes) |-> outcomes[i].value]

\* ------------------------------------------------------------ inputs
\* the name of the i-th file of a request
NameAt(i) == [stem |-> ToString(i),
              ext |-> CASE i % 4 = 1 -> ".png"
                        [] i % 4 = 2 -> ".jpg"
                        [] i % 4 = 3 -> ".gif"
                        [] OTHER -> ""]

\* a four-byte buffer (one full base64 group and a padded one)
SomeBytes == <<137, 80, 78, 71>>

NikeItem == JObj([brand |-> JStr("Nike"), product_name |-> JStr("Running Shorts"),
                  price |-> JStr("$24.99")])
NamelessItem == JObj([brand |-> JNull, price |-> JStr("$5")])

\* a well-formed extraction response
GoodReply == ServiceText(TRUE, JObj([type |-> JStr("checkout page"),
                                     extracted |-> JList(<<NikeItem>>)]))
\* the call fails: network or service error
NetworkError == ServiceError("Connection error.")
\* the text is no JSON document
NotJsonReply == ServiceText(FALSE, JNull)
\* JSON that is no object
NotObjectReply == ServiceText(TRUE, JList(<<>>))
\* an extracted item without product_name
BadItemReply == ServiceText(TRUE, JObj([type |-> JStr("product page"),
                                        extracted |-> JList(<<NikeItem, NamelessItem>>)]))

\* the call never returns (the code sets no timeout)
NeverReturns == [failed |-> FALSE, json |-> FALSE, value |-> JNull, hangs |-> TRUE]
Hangs(reply) == "hangs" \in DOMAIN reply

Replies == {GoodReply, NetworkError, NotJsonReply, NotObjectReply, BadItemReply,
            NeverReturns}

\* UploadFile.filename is Optional[str]: a name, the empty string, or None
FilenameKinds == {"given", "empty", "none"}

\* the kinds of file of a request: its filename, empty or not, and what the
\* service answers to its call (no call is made for an empty one); the file
\* named "" comes with a buffer of either kind and the well-formed answer
FileKinds ==
    [name : {"given", "none"}, data : {SomeBytes}, reply : Replies]
    \cup [name : {"given", "none"}, data : {<<>>}, reply : {GoodReply}]
    \cup [name : {"empty"}, data : {SomeBytes, <<>>}, reply : {GoodReply}]

\* UploadFile objects of a request whose i-th file is of kind kinds[i]
UploadsOf(kinds) ==
    [i \in 1..Len(kinds) |->
        [filename |-> CASE kinds[i].name = "given" -> Some(NameAt(i))
                        [] kinds[i].name = "empty" -> Some(EmptyName)
                        [] kinds[i].name = "none" -> None,
         data |-> kinds[i].data]]
RepliesOf(kinds) == [i \in 1..Len(kinds) |-> kinds[i].reply]

\* the requests: short ones of every mix of kinds, long ones of one kind
Batches ==
    UNION {[1..n -> FileKinds] : n \in 0..MaxVaried}
    \cup {[i \in 1..n |-> k] : n \in (MaxVaried + 1)..(MaxFiles + MaxExcess), k \in FileKinds}

\* ------------------------------------------------------------ response shapes
\* a key the document does not have
Absent == [t |-> "absent"]
\* the JSON object with the fields of `fields` that are not Absent
ObjOf(fields) ==
    JObj([k \in {x \in DOMAIN fields : fields[x] # Absent} |-> fields[k]])

\* extracted items with and without each key, brand null or a string
ShapeItems ==
    {ObjOf([brand |-> b, product_name |-> n, price |-> p]) :
        b \in {Absent, JNull, JStr("Nike")},
        n \in {Absent, JStr("Running Shorts")},
        p \in {Absent, JStr("$24.99")}}
ShapeLists == UNION {[1..n -> ShapeItems] : n \in 0..MaxItems}

\* what the service may answer: objects with and without type and
\* extracted, type a string or null; text that is no JSON; JSON that is no
\* object; an error
ShapeReplies ==
    {ServiceText(TRUE, ObjOf([type |-> t, extracted |-> e])) :
        t \in {Absent, JStr("checkout page"), JNull},
        e \in {Absent} \cup {JList(s) : s \in ShapeLists}}
    \cup {NotJsonReply, NotObjectReply, NetworkError}

\* requests of one non-empty file and any of these answers
ShapeBatches ==
    {<<k>> : k \in [name : FilenameKinds, data : {SomeBytes}, reply : ShapeReplies]}

ApiKeys == {None, Some(""), Some("sk-test")}
\* a small host and a large one
CpuCounts == {1, MaxCpus}

\* ------------------------------------------------------------ worker threads
\* the workers are all busy: every call runs one after the other
max_workers_one(cpus) == 1
\* asyncio.to_thread runs the call in the loop's default executor, a
\* ThreadPoolExecutor of min(32, os.cpu_count() + 4) threads
max_workers(cpus) == IF cpus + 4 < 32 THEN cpus + 4 ELSE 32

\* a worker is free for a call handed over now
WorkerFree == Cardinality(running) < max_workers(cpu_count)
\* to_thread(_call_model, data_url) of file i as an item of the work queue
WorkItem(i, data_url) == [file |-> i, data_url |-> data_url]

N == Len(files)
AllStarted == \A j \in 1..Len(task_pc) : task_pc[j] # "pending"

Init ==
    /\ api_key \in ApiKeys
    /\ pydantic \in {1, 2}
    /\ cpu_count \in CpuCounts
    /\ running = {}
    /\ queue = <<>>
    /\ pc = "idle"
    /\ files = <<>>
    /\ service = <<>>
    /\ task_pc = <<>>
    /\ task_result = <<>>
    /\ reads = <<>>
    /\ calls = <<>>
    /\ response = NoResponse
    /\ out_of_order = FALSE

\* analyze, a check failing: raise HTTPException
RejectOf(batches) ==
    /\ pc = "idle"
    /\ \E kinds \in batches :
         LET fs == UploadsOf(kinds) IN
         /\ ~IsNone(Precheck(fs, api_key))
         /\ files' = fs
         /\ service' = RepliesOf(kinds)
         /\ reads' = [i \in 1..Len(fs) |-> 0]
         /\ calls' = [i \in 1..Len(fs) |-> <<>>]
         /\ response' = Get(Precheck(fs, api_key))
    /\ pc' = "done"
    /\ UNCHANGED <<api_key, pydantic, cpu_count, task_pc, task_result, queue,
                   running, out_of_order>>
AnalyzeReject == RejectOf(Batches)

\* analyze, the checks passing: tasks = [..]; await asyncio.gather(*tasks)
\* creates one task per file and suspends analyze
DispatchOf(batches) ==
    /\ pc = "idle"
    /\ \E kinds \in batches :
         LET fs == UploadsOf(kinds) IN
         /\ IsNone(Precheck(fs, api_key))
         /\ files' = fs
         /\ service' = RepliesOf(kinds)
         /\ reads' = [i \in 1..Len(fs) |-> 0]
         /\ calls' = [i \in 1..Len(fs) |-> <<>>]
         /\ task_pc' = [i \in 1..Len(fs) |-> "pending"]
         /\ task_result' = [i \in 1..Len(fs) |-> NotFinished]
    /\ pc' = "gather"
    /\ UNCHANGED <<api_key, pydantic, cpu_count, queue, running, response,
                   out_of_order>>
AnalyzeDispatch == DispatchOf(Batches)

\* The first step of task i, up to its await: the loop runs the tasks'
\* first steps in the order gather created them. _encode_image reads the
\* file; the call is handed to the executor, where it runs at once if a
\* worker is free and waits in the queue if not; or the exception is handled.
StartTask(i) ==
    /\ task_pc[i] = "pending"
    /\ \A j \in 1..(i - 1) : task_pc[j] # "pending"
    /\ reads' = [reads EXCEPT ![i] = @ + 1]
    /\ LET data_url == encode_image(files[i].filename, files[i].data) IN
       IF data_url.ok
       THEN /\ task_pc' = [task_pc EXCEPT ![i] = "waiting"]
            /\ IF WorkerFree
               THEN /\ running' = running \cup {i}
                    /\ calls' = [calls EXCEPT ![i] = Append(@, data_url.value)]
                    /\ UNCHANGED queue
               ELSE /\ queue' = Append(queue, WorkItem(i, data_url.value))
                    /\ UNCHANGED <<calls, running>>
            /\ UNCHANGED task_result
       ELSE /\ task_pc' = [task_pc EXCEPT ![i] = "finished"]
            /\ task_result' = [task_result EXCEPT ![i] =
                                 Outcome(TryExcept(files[i].filename, data_url))]
            /\ UNCHANGED <<calls, queue, running>>
    /\ UNCHANGED <<api_key, pydantic, cpu_count, pc, files, service, response,
                   out_of_order>>

\* The call of file i returns in its thread and the loop resumes task i,
\* which runs to its end. The loop resumes tasks after the first steps
\* it had queued. The worker takes the next call of the executor's queue.
CallReturns(i) ==
    /\ task_pc[i] = "waiting"
    /\ i \in running
    /\ ~Hangs(service[i])
    /\ AllStarted
    /\ IF queue = <<>>
       THEN /\ running' = running \ {i}
            /\ UNCHANGED <<calls, queue>>
       ELSE /\ running' = (running \ {i}) \cup {Head(queue).file}
            /\ calls' = [calls EXCEPT ![Head(queue).file] =
                           Append(@, Head(queue).data_url)]
            /\ queue' = Tail(queue)
    /\ task_pc' = [task_pc EXCEPT ![i] = "finished"]
    /\ task_result' = [task_result EXCEPT ![i] =
                         Outcome(AfterCall(files[i].filename, calls[i][1], service[i]))]
    /\ out_of_order' = (out_of_order \/ \E j \in 1..(i - 1) : task_pc[j] = "waiting")
    /\ UNCHANGED <<api_key, pydantic, cpu_count, pc, files, service, reads,
                   response>>

\* gather: every child returned; analyze resumes and returns the response
GatherReturn ==
    /\ pc = "gather"
    /\ \A i \in 1..N : task_pc[i] = "finished" /\ task_result[i].kind = "returned"
    /\ response' = AnalyzeResponse(GatherResults(task_result))
    /\ pc' = "done"
    /\ UNCHANGED <<api_key, pydantic, cpu_count, files, service, task_pc,
                   task_result, reads, calls, queue, running, out_of_order>>

\* gather (return_exceptions=False): a child raised; the exception is
\* raised in analyze, which has no handler, and the client gets a 500.
\* The other children are not cancelled.
GatherRaise ==
    /\ pc = "gather"
    /\ AllStarted
    /\ \E i \in 1..N : task_result[i].kind = "raised"
    /\ response' = HTTPException(500, "Internal Server Error")
    /\ pc' = "done"
    /\ UNCHANGED <<api_key, pydantic, cpu_count, files, service, task_pc,
                   task_result, reads, calls, queue, running, out_of_order>>

Next ==
    \/ AnalyzeReject
    \/ AnalyzeDispatch
    \/ \E i \in 1..Len(task_pc) : StartTask(i)
    \/ \E i \in 1..Len(task_pc) : CallReturns(i)
    \/ GatherReturn
    \/ GatherRaise

Spec == Init /\ [][Next]_vars

\* the same program, its requests drawn from ShapeBatches
ShapeReject == RejectOf(ShapeBatches)
ShapeDispatch == DispatchOf(ShapeBatches)
ShapeNext ==
    \/ ShapeReject
    \/ ShapeDispatch
    \/ \E i \in 1..Len(task_pc) : StartTask(i)
    \/ \E i \in 1..Len(task_pc) : CallReturns(i)
    \/ GatherReturn
    \/ GatherRaise

ShapeSpec == Init /\ [][ShapeNext]_vars

\* ------------------------------------------------------------ properties
HasKey == api_key \notin {None, Some("")}
\* the request passed the batch-level checks
Accepted == N \in 1..MaxFiles /\ HasKey
Named(i) == ~IsNone(files[i].filename)
EmptyFile(i) == files[i].data = <<>>
Finished(i) == i \in 1..Len(task_pc) /\ task_pc[i] = "finished"
Returned(i) == Finished(i) /\ task_result[i].kind = "returned"
NoWorkDone ==
    /\ task_pc = <<>>
    /\ \A i \in 1..N : reads[i] = 0 /\ calls[i] = <<>>

\* C1: the results of a response are in submission order: result i is the
\* result of the task of file i and carries the filename and the outcome
\* (encoder failure, service failure) of file i, also when calls returned
\* out of order.
C1_SubmissionOrder ==
    response.status = 200 =>
        /\ Len(response.results) = N
        /\ \A i \in 1..N :
             LET r == response.results[i] IN
             /\ r = task_result[i].value
             /\ r.filename = Get(files[i].filename)
             /\ EmptyFile(i) <=> r.error = Some("empty file")
             /\ (~EmptyFile(i) /\ service[i].failed) => r.error = Some(service[i].msg)
             /\ (~EmptyFile(i) /\ service[i] = GoodReply) => r.type = "checkout page"
C1_Witness ==
    /\ response.status = 200
    /\ N >= 2
    /\ out_of_order
    /\ \E i \in 1..N : response.results[i].type # response.results[1].type

\* C2: a request of N valid images, 1 <= N <= 10, is answered with exactly
\* N results, one per file: no file dropped, none twice.
ValidImage(i) == Named(i) /\ ~EmptyFile(i)
C2_OneResultPerFile ==
    (pc = "done" /\ Accepted /\ \A i \in 1..N : ValidImage(i)) =>
        /\ response.status = 200
        /\ Len(response.results) = N
        /\ \A i \in 1..N : response.results[i].filename = Get(files[i].filename)
C2_Witness ==
    /\ N = MaxFiles
    /\ \A i \in 1..N : ValidImage(i) /\ files[i].filename = Some(NameAt(i))
    /\ response.status = 200
    /\ Len(response.results) = MaxFiles

\* C3: a request of no file or of more than 10 files is refused with 400:
\* no results, no task, no read of a buffer, no external call.
C3_BadCountRejected ==
    (pc # "idle" /\ (N = 0 \/ N > MaxFiles)) =>
        /\ pc = "done"
        /\ response.status = 400
        /\ "results" \notin DOMAIN response
        /\ NoWorkDone
C3_Witness ==
    /\ N = MaxFiles + 1
    /\ response.status = 400
    /\ HasKey

\* C4: without a credential (missing or empty) a request of 1..10 files is
\* refused with 500 and no external call is ever made for it.
C4_NoKeyNoCalls ==
    (pc # "idle" /\ ~HasKey /\ N \in 1..MaxFiles) =>
        /\ pc = "done"
        /\ response.status = 500
        /\ "results" \notin DOMAIN response
        /\ NoWorkDone
C4_Witness ==
    /\ api_key = Some("")
    /\ N = MaxFiles
    /\ response.status = 500
    /\ \A i \in 1..N : ~EmptyFile(i)

\* C5: _analyze_file always returns an ImageResult and never raises,
\* whatever the buffer, the filename (present or absent) and the outcome
\* of the call.
C5_NeverRaises ==
    \A i \in 1..Len(task_pc) : task_result[i].kind # "raised"

\* C6: when a step of the orchestrator fails (empty buffer, service error,
\* text that is no JSON, JSON off the schema), the file's result is an
\* ImageResult with type "error", no products and the failure's message.
StepFails(i) ==
    \/ EmptyFile(i)
    \/ service[i] \in {NetworkError, NotJsonReply, NotObjectReply, BadItemReply}
C6_FailureShape ==
    \A i \in 1..Len(task_pc) :
        (Finished(i) /\ StepFails(i)) =>
            /\ task_result[i].kind = "returned"
            /\ task_result[i].value.type = "error"
            /\ task_result[i].value.products = <<>>
            /\ ~IsNone(task_result[i].value.error)
            /\ EmptyFile(i) => task_result[i].value.error = Some("empty file")
            /\ (~EmptyFile(i) /\ service[i].failed) =>
                   task_result[i].value.error = Some(service[i].msg)

\* C7: a request that passed the batch-level checks is always answered
\* with an AnalyzeResponse (200), also when every file failed.
C7_AcceptedNeverFails ==
    (pc = "done" /\ Accepted) =>
        /\ response.status = 200
        /\ Len(response.results) = N

\* C8: every ImageResult is of one of two shapes: a success (error absent,
\* type and products those of a successful call) or a failure (type
\* "error", error present, no products).
SuccessShape(i, r) ==
    /\ IsNone(r.error)
    /\ ~EmptyFile(i)
    /\ ~service[i].failed
    /\ service[i].json
    /\ service[i].value.t = "obj"
    /\ r.type = service[i].value.v["type"].v
    /\ Len(r.products) = Len(service[i].value.v["extracted"].v)
FailureShape(r) ==
    /\ ~IsNone(r.error)
    /\ Get(r.error) # ""
    /\ r.type = "error"
    /\ r.products = <<>>
C9_SiblingsIsolated ==
    (pc = "done" /\ Accepted) =>
        \A j \in 1..N :
            Named(j) =>
                /\ response.status = 200
                /\ response.results[j].filename = Get(files[j].filename)
                /\ response.results[j] = task_result[j].value

\* C10: a file with an empty buffer gets an ImageResult with type "error",
\* no products and a non-empty error message.
C10_EmptyBufferResult ==
    \A i \in 1..Len(task_pc) :
        (Finished(i) /\ EmptyFile(i)) =>
            /\ task_result[i].kind = "returned"
            /\ task_result[i].value.type = "error"
            /\ task_result[i].value.products = <<>>
            /\ ~IsNone(task_result[i].value.error)
            /\ Get(task_result[i].value.error) # ""


\* C11: the checks run in the order non-empty, at most 10 files, credential,
\* and the first that fails decides: without a credential an empty request
\* and one of more than 10 files are still answered 400, each with its own
\* detail, and the 500 of the missing credential only answers requests of
\* 1..10 files.
C11_CheckOrder ==
    pc = "done" =>
        /\ N = 0 => (response.status = 400
                     /\ response.detail = "At least one image is required")
        /\ N > MaxFiles => (response.status = 400
                            /\ response.detail = "Maximum of 10 images allowed")
        /\ (response.status = 500 /\ response.detail = "OPENAI_API_KEY not configured")
               <=> (~HasKey /\ N \in 1..MaxFiles)
C11_Witness ==
    /\ pc = "done"
    /\ ~HasKey
    /\ N > MaxFiles
    /\ response.status = 400


\* ------------------------------------------------------------ response shapes
\* the answer to the call of file i is a JSON object
ObjectReply(i) ==
    /\ ~EmptyFile(i)
    /\ ~service[i].failed
    /\ service[i].json
    /\ service[i].value.t = "obj"
Doc(i) == service[i].value.v
Has(d, key) == key \in DOMAIN d
\* an item with its three keys, product_name a string, brand and price a
\* string or null
CompleteItem(item) ==
    /\ item.t = "obj"
    /\ {"brand", "product_name", "price"} \subseteq DOMAIN item.v
    /\ item.v["product_name"].t = "str"
    /\ item.v["brand"].t \in {"str", "null"}
    /\ item.v["price"].t \in {"str", "null"}
TypeFine(d) == Has(d, "type") => d["type"].t = "str"
ExtractedFine(d) ==
    Has(d, "extracted") =>
        /\ d["extracted"].t = "list"
        /\ \A k \in 1..Len(d["extracted"].v) : CompleteItem(d["extracted"].v[k])
\* Optional[str] of the result against the JSON value it comes from
SameOptional(field, json) ==
    IF json.t = "null" THEN IsNone(field) ELSE field = Some(json.v)

\* C12: when the service's text is no JSON, or is JSON in which a required
\* field (type, extracted, an item's brand, product_name or price) is
\* absent, the file's result is an ImageResult with type "error" and an
\* error message, and the request does not fail.
RequiredAbsent(d) ==
    \/ ~Has(d, "type")
    \/ ~Has(d, "extracted")
    \/ /\ d["extracted"].t = "list"
       /\ \E k \in 1..Len(d["extracted"].v) :
            {"brand", "product_name", "price"} \ DOMAIN d["extracted"].v[k].v # {}
C12_MalformedIsItemError ==
    \A i \in 1..Len(task_pc) :
        (/\ Finished(i)
         /\ ~EmptyFile(i)
         /\ ~service[i].failed
         /\ (~service[i].json \/ (ObjectReply(i) /\ RequiredAbsent(Doc(i))))) =>
            /\ task_result[i].kind = "returned"
            /\ task_result[i].value.type = "error"
            /\ ~IsNone(task_result[i].value.error)
            /\ pc = "done" => response.status = 200

\* C13: for a response that is an object without the key type (the rest in
\* order) the ImageResult has type "unknown"; without the key extracted it
\* has no products; both are successes, error absent.
C13_Defaults ==
    \A i \in 1..Len(task_pc) :
        (Returned(i) /\ ObjectReply(i)) =>
            LET r == task_result[i].value IN
            /\ (~Has(Doc(i), "type") /\ ExtractedFine(Doc(i))) =>
                   (r.type = "unknown" /\ IsNone(r.error))
            /\ (~Has(Doc(i), "extracted") /\ TypeFine(Doc(i))) =>
                   (r.products = <<>> /\ IsNone(r.error))
C13_Witness ==
    /\ response.status = 200
    /\ ObjectReply(1)
    /\ ~Has(Doc(1), "type")
    /\ Has(Doc(1), "extracted")
    /\ response.results[1].type = "unknown"
    /\ Len(response.results[1].products) = MaxItems
    /\ IsNone(response.results[1].error)

\* C14: an extracted item without the key brand (or price), in a response
\* otherwise in order, gives a success whose product has that field null.
LacksOptional(item) ==
    /\ item.t = "obj"
    /\ Has(item.v, "product_name")
    /\ item.v["product_name"].t = "str"
    /\ Has(item.v, "brand") => item.v["brand"].t \in {"str", "null"}
    /\ Has(item.v, "price") => item.v["price"].t \in {"str", "null"}
C14_MissingOptionalIsNull ==
    \A i \in 1..Len(task_pc) :
        (/\ Finished(i)
         /\ Named(i)
         /\ ObjectReply(i)
         /\ Has(Doc(i), "type") /\ Doc(i)["type"].t = "str"
         /\ Has(Doc(i), "extracted")
         /\ \A k \in 1..Len(Doc(i)["extracted"].v) :
                LacksOptional(Doc(i)["extracted"].v[k])) =>
            /\ task_result[i].kind = "returned"
            /\ IsNone(task_result[i].value.error)
            /\ Len(task_result[i].value.products) = Len(Doc(i)["extracted"].v)
            /\ \A k \in 1..Len(Doc(i)["extracted"].v) :
                 LET item == Doc(i)["extracted"].v[k].v
                     p == task_result[i].value.products[k]
                 IN  /\ ~Has(item, "brand") => IsNone(p.brand)
                     /\ ~Has(item, "price") => IsNone(p.price)

\* C15: for a well-formed response {type: t, extracted: [p1..pk]} the
\* ImageResult has type t, no error, and the k products in the same order
\* with the same brand, product_name and price.
WellFormed(d) ==
    /\ Has(d, "type") /\ d["type"].t = "str"
    /\ Has(d, "extracted") /\ ExtractedFine(d)
C15_RoundTrip ==
    \A i \in 1..Len(task_pc) :
        (Returned(i) /\ ObjectReply(i) /\ WellFormed(Doc(i))) =>
            LET r == task_result[i].value
                items == Doc(i)["extracted"].v
            IN  /\ r.type = Doc(i)["type"].v
                /\ IsNone(r.error)
                /\ Len(r.products) = Len(items)
                /\ \A k \in 1..Len(items) :
                     /\ r.products[k].product_name = items[k].v["product_name"].v
                     /\ SameOptional(r.products[k].brand, items[k].v["brand"])
                     /\ SameOptional(r.products[k].price, items[k].v["price"])
C15_Witness ==
    /\ response.status = 200
    /\ ObjectReply(1)
    /\ WellFormed(Doc(1))
    /\ Len(response.results[1].products) = MaxItems
    /\ response.results[1].products[1].brand = Some("Nike")
    /\ IsNone(response.results[1].products[MaxItems].brand)
    /\ response.results[1].type = "checkout page"


\* ------------------------------------------------------------ scheduling
\* the host's worker threads, min(32, cpu_count + 4)
Capacity == IF cpu_count + 4 < 32 THEN cpu_count + 4 ELSE 32
Waiting(i) == i \in 1..Len(task_pc) /\ task_pc[i] = "waiting"
Queued == {queue[k].file : k \in 1..Len(queue)}

\* C16: no early return: analyze is done with an accepted request only
\* once the invocation of every file has completed; no invocation is
\* cancelled or skipped because another failed.
C16_NoEarlyReturn ==
    (pc = "done" /\ Accepted) => \A i \in 1..N : Finished(i)

\* C17: there is no timeout: while the call of some file of an accepted
\* request never returns, the request does not complete, whatever the
\* other calls do.
C17_HangBlocksBatch ==
    (Accepted /\ \E i \in 1..N : ~EmptyFile(i) /\ Hangs(service[i])) => pc # "done"

\* C18: every buffer is read once, by the first step of its own task; the
\* service is called at most once per file, never for an empty buffer, once
\* for every non-empty buffer by the time its task has finished, and never
\* again after a failure; the calls never outnumber the files, at most 10.
C18_ReadOnceCallOnce ==
    \A i \in 1..N :
        /\ reads[i] = (IF i \in 1..Len(task_pc) /\ task_pc[i] # "pending" THEN 1 ELSE 0)
        /\ Len(calls[i]) <= 1
        /\ EmptyFile(i) => calls[i] = <<>>
        /\ calls[i] # <<>> => (reads[i] = 1 /\ N <= MaxFiles)
        /\ (Finished(i) /\ ~EmptyFile(i)) => Len(calls[i]) = 1
        /\ Finished(i) => (i \notin running /\ i \notin Queued)
        /\ i \in running => (Waiting(i) /\ Len(calls[i]) = 1)
C18_Witness ==
    /\ response.status = 200
    /\ \E i, j \in 1..N :
         /\ EmptyFile(i) /\ reads[i] = 1 /\ calls[i] = <<>>
         /\ service[j] = NetworkError /\ reads[j] = 1 /\ Len(calls[j]) = 1
         /\ response.results[j].error = Some("Connection error.")

\* C19 as stated: the N calls of an accepted request can all be in flight
\* at once, so a call handed to a worker context is in flight and never
\* waits for the call of another file to return.
C19_AllInFlight ==
    \A i \in 1..Len(task_pc) : Waiting(i) => i \in running

\* C19 as amended: the calls run in the worker threads of the loop's
\* default executor, at most min(32, cpu_count + 4) (at least 5) at once; a
\* call waits only while that many calls of other files are in flight, so
\* the calls of a request of no more files than that are all in flight at
\* once; the others wait for a worker.
C19_InFlightUpToCapacity ==
    /\ Capacity >= 5
    /\ Cardinality(running) <= Capacity
    /\ queue # <<>> => Cardinality(running) = Capacity
    /\ \A i \in 1..Len(task_pc) : Waiting(i) <=> (i \in running \/ i \in Queued)
    /\ N <= Capacity => C19_AllInFlight
C19_Witness ==
    /\ queue # <<>>
    /\ \E i, j \in 1..N :
         /\ i < j
         /\ i \in running
         /\ Returned(j) /\ ~EmptyFile(j)

=============================================================================
